---- MODULE Spec2Model ----
(***************************************************************************)
(* Model of export.js: the StrategyValidator predicates, and the           *)
(* StrategyManager operations exportStrategies, importStrategies and       *)
(* getStrategies working on the single localStorage key                    *)
(* 'strategies_saved'.                                                     *)
(*                                                                         *)
(* JavaScript values are tagged records, one field name per type, so that  *)
(* two values of different types are simply unequal:                       *)
(*   [undef |-> TRUE]  undefined        [null |-> TRUE]  null               *)
(*   [bool |-> b]      a boolean        [num |-> n]      a finite number    *)
(*   [inf |-> TRUE]    Infinity         [str |-> s]      a string           *)
(*   [arr |-> seq]     an array         [obj |-> seq of [k, v]]  an object  *)
(* A text (a file's content, a stored item) is [txt |-> "empty"],          *)
(* [txt |-> "malformed"] or [txt |-> "json", ws |-> b, doc |-> tree]: a    *)
(* JSON document as its syntax tree of literals, ws telling whether it is  *)
(* written with insignificant whitespace.                                  *)
(***************************************************************************)
EXTENDS Integers, Sequences, FiniteSets, TLC

VARIABLES
    localStorage,   \* the item under STRATEGY_KEY: a text, or NoItem
    StrategyConverter, \* "defined" or "undefined": whether the page defines the codec
    calls,          \* per importStrategies call: its promise, reader and inputs
    order,          \* the calls whose file read has ended, in the order they ended
    last,           \* the synchronous call made by the last step, with its result
    strategy,       \* the value handed to validateStrategy on its own
    verdict         \* what validateStrategy answered for it

vars == <<localStorage, StrategyConverter, calls, order, last, strategy, verdict>>

(***************************** bounds **************************************)
\* The number of importStrategies calls of a run (they may overlap).
NumCalls == 2
\* The longest blocks sequence of the strategies validateStrategy is tried on.
MaxBlocks == 2

(************************** JavaScript values ******************************)
Undefined == [undef |-> TRUE]
Null == [null |-> TRUE]
Infinity == [inf |-> TRUE]
Bool(b) == [bool |-> b]
Num(n) == [num |-> n]
Str(s) == [str |-> s]
Arr(s) == [arr |-> s]
Obj(es) == [obj |-> es]

IsUndef(v) == "undef" \in DOMAIN v
IsNull(v) == "null" \in DOMAIN v
IsBool(v) == "bool" \in DOMAIN v
IsStr(v) == "str" \in DOMAIN v
IsArr(v) == "arr" \in DOMAIN v
IsObj(v) == "obj" \in DOMAIN v
\* typeof v === 'number'
IsNumber(v) == "num" \in DOMAIN v \/ "inf" \in DOMAIN v
\* v is null or undefined: reading a property of it throws a TypeError
Nullish(v) == IsNull(v) \/ IsUndef(v)

\* ToBoolean(v): what !v negates.
Truthy(v) ==
    CASE IsUndef(v) -> FALSE
      [] IsNull(v) -> FALSE
      [] IsBool(v) -> v.bool
      [] "num" \in DOMAIN v -> v.num # 0
      [] IsStr(v) -> v.str # ""
      [] OTHER -> TRUE

\* v.k for a v that is not null or undefined: undefined unless v is an object
\* that has the key.
Get(v, k) ==
    IF IsObj(v) /\ \E i \in 1..Len(v.obj) : v.obj[i].k = k
    THEN v.obj[CHOOSE i \in 1..Len(v.obj) : v.obj[i].k = k].v
    ELSE Undefined

\* list.includes(v) for a list of strings.
Includes(list, v) == IsStr(v) /\ v.str \in list

(************************** StrategyValidator ******************************)
validConditionTypes ==
    {"every", "everyStreakOf", "streakGreaterThan", "streakLowerThan",
     "firstStreakOf", "greaterThan", "greaterThanOrEqualTo", "lessThan",
     "lessThanOrEqualTo"}
validBetTypes == {"bet", "win", "lose"}
validProfitTypes == {"profit", "loss", "balance"}
validActionTypes ==
    {"setAmount", "setWinChance", "increaseWinChanceBy", "decreaseWinChanceBy",
     "increaseByPercentage", "decreaseByPercentage", "addToAmount",
     "subtractFromAmount", "addToWinChance", "subtractFromWinChance",
     "switchOverUnder", "resetAmount", "resetWinChance", "stop"}
validBlockTypes == {"bets", "profit"}

\* A validator answers "true" or "false", or ends in "TypeError" when it reads
\* a property of null or undefined.

\* a && b, where a call that throws ends the expression.
AndThen(a, b) == IF a = "true" THEN b ELSE a

validateCondition(condition) ==
    IF Nullish(condition) THEN "TypeError"
    ELSE IF \/ ~Truthy(Get(condition, "type"))
            \/ IsUndef(Get(condition, "value"))
            \/ ~Truthy(Get(condition, "betType"))
            \/ ~Truthy(Get(condition, "profitType")) THEN "false"
    ELSE IF ~Includes(validConditionTypes, Get(condition, "type")) THEN "false"
    ELSE IF ~Includes(validBetTypes, Get(condition, "betType")) THEN "false"
    ELSE IF ~Includes(validProfitTypes, Get(condition, "profitType")) THEN "false"
    ELSE IF ~IsNumber(Get(condition, "value")) THEN "false"
    ELSE "true"

\* validateAction with the value checked by truthiness, as validateBlock
\* checks the id.
validateActionTruthy(action) ==
    IF Nullish(action) THEN "TypeError"
    ELSE IF ~Truthy(Get(action, "type")) \/ ~Truthy(Get(action, "value")) THEN "false"
    ELSE IF ~Includes(validActionTypes, Get(action, "type")) THEN "false"
    ELSE IF ~IsNumber(Get(action, "value")) THEN "false"
    ELSE "true"

validateAction(action) ==
    IF Nullish(action) THEN "TypeError"
    ELSE IF ~Truthy(Get(action, "type")) \/ IsUndef(Get(action, "value")) THEN "false"
    ELSE IF ~Includes(validActionTypes, Get(action, "type")) THEN "false"
    ELSE IF ~IsNumber(Get(action, "value")) THEN "false"
    ELSE "true"

validateBlock(block) ==
    IF Nullish(block) THEN "TypeError"
    ELSE IF \/ ~Truthy(Get(block, "id"))
            \/ ~Truthy(Get(block, "type"))
            \/ ~Truthy(Get(block, "on"))
            \/ ~Truthy(Get(block, "do")) THEN "false"
    ELSE IF ~Includes(validBlockTypes, Get(block, "type")) THEN "false"
    ELSE AndThen(validateCondition(Get(block, "on")), validateAction(Get(block, "do")))

\* strategy.blocks.every(block => StrategyValidator.validateBlock(block)):
\* left to right, ending at the first block that fails or throws.
RECURSIVE everyBlock(_)
everyBlock(blocks) ==
    IF blocks = <<>> THEN "true"
    ELSE AndThen(validateBlock(Head(blocks)), everyBlock(Tail(blocks)))

(**************************** StrategyManager ******************************)
validateStrategy(s) ==
    IF ~Truthy(s) \/ ~(IsObj(s) \/ IsArr(s)) THEN "false"
    ELSE IF ~Truthy(Get(s, "label")) \/ ~IsArr(Get(s, "blocks")) THEN "false"
    ELSE IF ~IsBool(Get(s, "isDefault")) THEN "false"
    ELSE everyBlock(Get(s, "blocks").arr)

\* parsed.every(this.validateStrategy)
RECURSIVE everyStrategy(_)
everyStrategy(list) ==
    IF list = <<>> THEN "true"
    ELSE AndThen(validateStrategy(Head(list)), everyStrategy(Tail(list)))

(********************************* JSON *************************************)
NoItem == [none |-> TRUE]
EmptyText == [txt |-> "empty"]
Malformed == [txt |-> "malformed"]
Json(tree) == [txt |-> "json", ws |-> FALSE, doc |-> tree]
Pretty(tree) == [txt |-> "json", ws |-> TRUE, doc |-> tree]

Err(name, message) == [name |-> name, message |-> message]
SyntaxError == Err("SyntaxError", "Unexpected token")
TypeError == Err("TypeError", "Cannot read properties of null")
ReferenceError == Err("ReferenceError", "StrategyConverter is not defined")
\* The errors the manager makes itself.
InvalidFormatDetected == Err("Error", "Invalid strategy format detected")
WrongWebsite ==
    Err("Error",
        "Invalid strategy format detected in localStorage, check you are on the right website")
InvalidFormat == Err("Error", "Invalid strategy format")
NoFileSelected == Err("Error", "No file selected")
FileReadError == Err("Error", "Failed to read file")
\* new Error(`Invalid strategy file: ${error.message}`)
InvalidStrategyFile(message) == Err("Error", "Invalid strategy file: " \o message)

\* The number a number literal denotes: one beyond the double range is Infinity.
ToNumber(literal) ==
    CASE literal = "0" -> Num(0)
      [] literal = "1" -> Num(1)
      [] literal = "5" -> Num(5)
      [] literal = "1e999" -> Infinity

RECURSIVE ParseNode(_), ParseItems(_), ParseEntries(_)
\* the elements of an array literal, in order
ParseItems(items) ==
    IF items = <<>> THEN <<>>
    ELSE <<ParseNode(Head(items))>> \o ParseItems(Tail(items))
\* the members of an object literal, in order
ParseEntries(entries) ==
    IF entries = <<>> THEN <<>>
    ELSE <<[k |-> Head(entries).k, v |-> ParseNode(Head(entries).v)]>>
         \o ParseEntries(Tail(entries))
ParseNode(n) ==
    CASE "lit" \in DOMAIN n ->
           (CASE n.lit = "null" -> Null
              [] n.lit = "true" -> Bool(TRUE)
              [] n.lit = "false" -> Bool(FALSE))
      [] "numlit" \in DOMAIN n -> ToNumber(n.numlit)
      [] "strlit" \in DOMAIN n -> Str(n.strlit)
      [] "arrlit" \in DOMAIN n -> Arr(ParseItems(n.arrlit))
      [] "objlit" \in DOMAIN n -> Obj(ParseEntries(n.objlit))

\* JSON.parse(text): [ok |-> value], or [throw |-> SyntaxError].
JSONparse(text) ==
    IF text.txt = "json" THEN [ok |-> ParseNode(text.doc)]
    ELSE [throw |-> SyntaxError]

\* The literal JSON.stringify writes for a number: a non-finite one is null.
NumberLiteral(v) ==
    IF "inf" \in DOMAIN v THEN [lit |-> "null"]
    ELSE CASE v.num = 0 -> [numlit |-> "0"]
           [] v.num = 1 -> [numlit |-> "1"]
           [] v.num = 5 -> [numlit |-> "5"]

RECURSIVE StringifyNode(_), StringifyItems(_), StringifyEntries(_)
StringifyItems(items) ==
    IF items = <<>> THEN <<>>
    ELSE <<StringifyNode(Head(items))>> \o StringifyItems(Tail(items))
\* a member whose value is undefined is left out
StringifyEntries(entries) ==
    IF entries = <<>> THEN <<>>
    ELSE (IF IsUndef(Head(entries).v) THEN <<>>
          ELSE <<[k |-> Head(entries).k, v |-> StringifyNode(Head(entries).v)]>>)
         \o StringifyEntries(Tail(entries))
StringifyNode(v) ==
    CASE IsNull(v) \/ IsUndef(v) -> [lit |-> "null"]
      [] IsBool(v) -> [lit |-> IF v.bool THEN "true" ELSE "false"]
      [] IsNumber(v) -> NumberLiteral(v)
      [] IsStr(v) -> [strlit |-> v.str]
      [] IsArr(v) -> [arrlit |-> StringifyItems(v.arr)]
      [] IsObj(v) -> [objlit |-> StringifyEntries(v.obj)]

\* JSON.stringify(value): the compact text of the value.
JSONstringify(v) == Json(StringifyNode(v))

(***************************** StrategyConverter ***************************)
\* The codec is not part of export.js. Its shorthand form of a strategy is
\* taken to be the array [label, isDefault, blocks].
RECURSIVE EncodeAll(_)
EncodeAll(list) ==
    IF list = <<>> THEN <<>>
    ELSE <<Arr(<<Get(Head(list), "label"), Get(Head(list), "isDefault"),
                 Get(Head(list), "blocks")>>)>> \o EncodeAll(Tail(list))
toShorthand(strategies) == Arr(EncodeAll(strategies.arr))

RECURSIVE DecodeAll(_)
DecodeAll(list) ==
    IF list = <<>> THEN <<>>
    ELSE <<Obj(<<[k |-> "label", v |-> Head(list).arr[1]],
                 [k |-> "isDefault", v |-> Head(list).arr[2]],
                 [k |-> "blocks", v |-> Head(list).arr[3]]>>)>>
         \o DecodeAll(Tail(list))

IsShorthand(v) ==
    IsArr(v) /\ \A i \in 1..Len(v.arr) : IsArr(v.arr[i]) /\ Len(v.arr[i].arr) = 3

\* [ok |-> strategies], or [throw |-> error] for a value that is no shorthand.
fromShorthand(v) ==
    IF IsShorthand(v)
    THEN [ok |-> Arr(DecodeAll(v.arr))]
    ELSE [throw |-> Err("Error", "Invalid shorthand")]

(************************ StrategyManager operations ***********************)
Formats == {"original", "shorthand"}

NoDownload == [none |-> TRUE]
\* a.download = `strategies_${format}_${date}.json`; new Blob([exportData])
Download(format, exportData) ==
    [name |-> "strategies_" \o format \o "_<date>.json", data |-> exportData]

Return(v, d) == [outcome |-> "return", value |-> v, download |-> d]
Throw(e) == [outcome |-> "throw", value |-> e, download |-> NoDownload]

\* strategies === null: the empty string is taken for data.
ItemNull(item) == item = NoItem

\* !strategies for what localStorage.getItem gave: null or the empty string.
ItemFalsy(item) == item = NoItem \/ item = EmptyText

\* Only the first strategy of the list is validated.
validateFirst(parsed) ==
    IF ~IsArr(parsed) THEN "false"
    ELSE IF parsed.arr = <<>> THEN "true"
    ELSE validateStrategy(Head(parsed.arr))

\* Array.isArray(parsed) && parsed.every(this.validateStrategy)
validateAll(parsed) ==
    IF IsArr(parsed) THEN everyStrategy(parsed.arr) ELSE "false"

exportStrategies(item, format, converter) ==
    IF ItemFalsy(item) THEN Return(Null, NoDownload)
    ELSE LET p == JSONparse(item) IN
    IF "throw" \in DOMAIN p THEN Throw(p.throw)
    ELSE LET valid == validateAll(p.ok) IN
    IF valid = "TypeError" THEN Throw(TypeError)
    ELSE IF valid = "false"
    THEN Throw(InvalidFormatDetected)
    ELSE IF format = "shorthand"
    THEN IF converter = "undefined" THEN Throw(ReferenceError)
         ELSE LET exportData == JSONstringify(toShorthand(p.ok))
              IN  Return(exportData, Download(format, exportData))
    ELSE Return(item, Download(format, item))

\* getStrategies whose catch clause throws the hinting error for every failure.
getStrategiesHinting(item, format, converter) ==
    IF ItemFalsy(item) THEN Return(Null, NoDownload)
    ELSE LET p == JSONparse(item) IN
    IF "throw" \in DOMAIN p THEN Throw(WrongWebsite)
    ELSE LET valid == validateAll(p.ok) IN
    IF valid # "true" THEN Throw(WrongWebsite)
    ELSE IF format = "shorthand"
    THEN IF converter = "undefined" THEN Throw(WrongWebsite)
         ELSE Return(toShorthand(p.ok), NoDownload)
    ELSE Return(p.ok, NoDownload)

getStrategies(item, format, converter) ==
    IF ItemFalsy(item) THEN Return(Null, NoDownload)
    ELSE LET p == JSONparse(item) IN
    IF "throw" \in DOMAIN p THEN Throw(p.throw)
    ELSE LET valid == validateAll(p.ok) IN
    IF valid = "TypeError" THEN Throw(TypeError)
    ELSE IF valid = "false"
    THEN Throw(WrongWebsite)
    ELSE IF format = "shorthand"
    THEN IF converter = "undefined" THEN Throw(ReferenceError)
         ELSE Return(toShorthand(p.ok), NoDownload)
    ELSE Return(p.ok, NoDownload)

\* What reader.onload does with the text read: the promise call it makes, with
\* its argument, and the text it stores (NoItem: none).
Resolve(v, text) == [settle |-> "resolve", value |-> v, write |-> text]
\* reject(error): the error caught is passed on as it is.
RejectRaw(error) == [settle |-> "reject", value |-> error, write |-> NoItem]

\* the catch clause: reject(new Error(`Invalid strategy file: ${error.message}`))
Reject(error) ==
    [settle |-> "reject", value |-> InvalidStrategyFile(error.message), write |-> NoItem]

\* onload with localStorage.setItem placed before the validation.
onloadStoringFirst(content, format, converter) ==
    LET p == JSONparse(content) IN
    IF "throw" \in DOMAIN p THEN Reject(p.throw)
    ELSE IF format = "shorthand" /\ converter = "undefined" THEN Reject(ReferenceError)
    ELSE LET d == IF format = "shorthand" THEN fromShorthand(p.ok) ELSE p IN
    IF "throw" \in DOMAIN d THEN Reject(d.throw)
    ELSE LET valid == validateAll(d.ok) IN
    IF valid = "TypeError" THEN [Reject(TypeError) EXCEPT !.write = JSONstringify(d.ok)]
    ELSE IF valid = "false"
    THEN [Reject(InvalidFormat) EXCEPT !.write = JSONstringify(d.ok)]
    ELSE Resolve(d.ok, JSONstringify(d.ok))

onload(content, format, converter) ==
    LET p == JSONparse(content) IN
    IF "throw" \in DOMAIN p THEN Reject(p.throw)
    ELSE IF format = "shorthand" /\ converter = "undefined" THEN Reject(ReferenceError)
    ELSE LET d == IF format = "shorthand" THEN fromShorthand(p.ok) ELSE p IN
    IF "throw" \in DOMAIN d THEN Reject(d.throw)
    ELSE LET valid == validateAll(d.ok) IN
    IF valid = "TypeError" THEN Reject(TypeError)
    ELSE IF valid = "false" THEN Reject(InvalidFormat)
    ELSE Resolve(d.ok, JSONstringify(d.ok))

(************************** documents and files ****************************)
\* Syntax trees of JSON documents. Absent marks a key the object leaves out.
Absent == [absent |-> TRUE]
TNull == [lit |-> "null"]
TTrue == [lit |-> "true"]
TFalse == [lit |-> "false"]
TNum(literal) == [numlit |-> literal]
TStr(s) == [strlit |-> s]
TArr(items) == [arrlit |-> items]
TObj(entries) == [objlit |-> SelectSeq(entries, LAMBDA e : e.v # Absent)]

TAction(type, value) ==
    TObj(<<[k |-> "type", v |-> type], [k |-> "value", v |-> value]>>)
TCondition(type, value, betType, profitType) ==
    TObj(<<[k |-> "type", v |-> type], [k |-> "value", v |-> value],
           [k |-> "betType", v |-> betType], [k |-> "profitType", v |-> profitType]>>)
TBlock(id, type, on, do) ==
    TObj(<<[k |-> "id", v |-> id], [k |-> "type", v |-> type],
           [k |-> "on", v |-> on], [k |-> "do", v |-> do]>>)
TStrategy(label, isDefault, blocks) ==
    TObj(<<[k |-> "label", v |-> label], [k |-> "isDefault", v |-> isDefault],
           [k |-> "blocks", v |-> blocks]>>)

\* A valid block, but for the id and the two values given.
BlockWith(id, conditionValue, actionValue) ==
    TBlock(id, TStr("bets"),
           TCondition(TStr("every"), conditionValue, TStr("bet"), TStr("profit")),
           TAction(TStr("setAmount"), actionValue))
ValidBlock == BlockWith(TNum("1"), TNum("1"), TNum("1"))
\* A valid strategy with the blocks given.
StrategyWith(blocks) == TStrategy(TStr("x"), TTrue, TArr(blocks))

FileEmptyList == Json(TArr(<<>>))
FileNoBlocks == Json(TArr(<<StrategyWith(<<>>)>>))
FileOneBlock == Pretty(TArr(<<StrategyWith(<<ValidBlock>>)>>))
FileActionZero ==
    Json(TArr(<<StrategyWith(<<BlockWith(TNum("1"), TNum("1"), TNum("0"))>>)>>))
FileConditionZero ==
    Json(TArr(<<StrategyWith(<<BlockWith(TNum("1"), TNum("0"), TNum("1"))>>)>>))
FileIdZero ==
    Json(TArr(<<StrategyWith(<<BlockWith(TNum("0"), TNum("1"), TNum("1"))>>)>>))
FileNullBlock == Json(TArr(<<StrategyWith(<<TNull>>)>>))
FileHugeValue ==
    Json(TArr(<<StrategyWith(<<BlockWith(TNum("1"), TNum("1"), TNum("1e999"))>>)>>))
\* a valid strategy followed by one with an empty label
FileMixed ==
    Json(TArr(<<StrategyWith(<<>>), TStrategy(TStr(""), TTrue, TArr(<<>>))>>))
\* a strategy that is not wrapped in a list
FileNotList == Json(StrategyWith(<<>>))
\* the shorthand form of FileNoBlocks
FileShorthand == Json(TArr(<<TArr(<<TStr("x"), TTrue, TArr(<<>>)>>)>>))

\* fileInput.files[0] is undefined
NoFile == [nofile |-> TRUE]

\* The files of the runs with overlapping imports.
RaceFiles == {Malformed, FileNoBlocks, FileOneBlock, FileShorthand}
\* What localStorage holds when those runs start.
RaceItems == {NoItem, Malformed, FileNoBlocks}
\* The files of the runs with one import at a time.
SeqFiles ==
    {Malformed, EmptyText, FileEmptyList, FileNoBlocks, FileOneBlock,
     FileActionZero, FileConditionZero, FileIdZero, FileNullBlock, FileHugeValue,
     FileMixed, FileNotList, FileShorthand}
SeqItems == {NoItem} \cup SeqFiles

\* The blocks validateStrategy is tried on.
BlockSamples ==
    {TNull, TNum("5"), TStr("b"), ValidBlock,
     BlockWith(TNum("0"), TNum("1"), TNum("1")),
     BlockWith(Absent, TNum("1"), TNum("1")),
     BlockWith(TNum("1"), TNum("0"), TNum("0")),
     BlockWith(TNum("1"), Absent, TNum("1")),
     BlockWith(TNum("1"), TNum("1"), TStr("1")),
     BlockWith(TNum("1"), TNum("1"), TNum("1e999")),
     TBlock(TNum("1"), TStr("other"), TNum("5"), TNum("5")),
     TBlock(TStr("a"), TStr("profit"), TNum("5"), TAction(TStr("stop"), TNum("0"))),
     TBlock(TStr("a"), TStr("profit"),
            TCondition(TStr("lessThan"), TNum("0"), TStr("win"), TStr("loss")),
            TAction(TStr("halt"), TNum("0")))}
BlockLists == UNION {[1..n -> BlockSamples] : n \in 0..MaxBlocks}
StrategySamples ==
    {TNull, TNum("5"), TStr("s"), TArr(<<>>)} \cup
    {TStrategy(label, isDefault, blocks) :
        label \in {Absent, TStr(""), TStr("x")},
        isDefault \in {Absent, TTrue, TFalse, TStr("true")},
        blocks \in {Absent, TObj(<<>>)} \cup {TArr(b) : b \in BlockLists}}

(******************************** state ************************************)
Calls == 1..NumCalls

IdleCall ==
    [started |-> FALSE, reader |-> "none", file |-> NoFile, format |-> "original",
     promise |-> "pending", value |-> Undefined, settles |-> 0, wrote |-> FALSE]

\* resolve(v) or reject(v) on the call's promise: only the first one settles it.
Settle(call, kind, v) ==
    [call EXCEPT !.promise = IF @ = "pending" THEN kind ELSE @,
                 !.value = IF call.promise = "pending" THEN v ELSE @,
                 !.settles = @ + 1]

NoCall == [op |-> "none"]

Init ==
    /\ localStorage \in RaceItems
    /\ StrategyConverter \in {"defined", "undefined"}
    /\ calls = [c \in Calls |-> IdleCall]
    /\ order = <<>>
    /\ last = NoCall
    /\ strategy = Undefined
    /\ verdict = "none"

(******************************* actions ***********************************)
\* importStrategies(fileInput, format) up to reader.readAsText(file).
ImportStart(c, file, format) ==
    /\ ~calls[c].started
    /\ \A d \in 1..(c - 1) : calls[d].started
    /\ calls' = [calls EXCEPT ![c] =
         IF file = NoFile
         THEN Settle([@ EXCEPT !.started = TRUE], "rejected", NoFileSelected)
         ELSE [@ EXCEPT !.started = TRUE, !.reader = "loading",
                        !.file = file, !.format = format]]
    /\ last' = NoCall
    /\ UNCHANGED <<localStorage, StrategyConverter, order, strategy, verdict>>

\* reader.onload: the read has completed with the file's text.
FileLoad(c) ==
    /\ calls[c].reader = "loading"
    /\ \E r \in {onload(calls[c].file, calls[c].format, StrategyConverter)} :
       /\ localStorage' = IF r.write = NoItem THEN localStorage ELSE r.write
       /\ calls' = [calls EXCEPT ![c] =
            Settle([@ EXCEPT !.reader = "done", !.file = NoFile,
                             !.format = "original", !.wrote = r.write # NoItem],
                   IF r.settle = "resolve" THEN "fulfilled" ELSE "rejected",
                   r.value)]
    /\ order' = Append(order, c)
    /\ last' = NoCall
    /\ UNCHANGED <<StrategyConverter, strategy, verdict>>

\* No onerror handler: the read fails and nothing rejects the promise.
FileErrorIgnored(c) ==
    /\ calls[c].reader = "loading"
    /\ calls' = [calls EXCEPT ![c] =
         [@ EXCEPT !.reader = "error", !.file = NoFile, !.format = "original"]]
    /\ order' = Append(order, c)
    /\ last' = NoCall
    /\ UNCHANGED <<localStorage, StrategyConverter, strategy, verdict>>

\* reader.onerror: the read has failed.
FileError(c) ==
    /\ calls[c].reader = "loading"
    /\ calls' = [calls EXCEPT ![c] =
         Settle([@ EXCEPT !.reader = "error", !.file = NoFile, !.format = "original"],
                "rejected", FileReadError)]
    /\ order' = Append(order, c)
    /\ last' = NoCall
    /\ UNCHANGED <<localStorage, StrategyConverter, strategy, verdict>>

\* A settled call is done with; the next import may begin.
Forget(c) ==
    /\ calls[c].promise # "pending"
    /\ calls' = [calls EXCEPT ![c] = IdleCall]
    /\ order' = <<>>
    /\ last' = NoCall
    /\ UNCHANGED <<localStorage, StrategyConverter, strategy, verdict>>

\* exportStrategies that also stores what it exported.
ExportStrategiesStoring(format) ==
    /\ \E r \in {exportStrategies(localStorage, format, StrategyConverter)} :
          /\ last' = [op |-> "exportStrategies", format |-> format, result |-> r]
          /\ localStorage' = IF r.download = NoDownload THEN localStorage
                             ELSE r.download.data
    /\ UNCHANGED <<StrategyConverter, calls, order, strategy, verdict>>

ExportStrategies(format) ==
    /\ last' = [op |-> "exportStrategies", format |-> format,
                result |-> exportStrategies(localStorage, format, StrategyConverter)]
    /\ UNCHANGED <<localStorage, StrategyConverter, calls, order, strategy, verdict>>

GetStrategies(format) ==
    /\ last' = [op |-> "getStrategies", format |-> format,
                result |-> getStrategies(localStorage, format, StrategyConverter)]
    /\ UNCHANGED <<localStorage, StrategyConverter, calls, order, strategy, verdict>>

\* validateStrategy called on its own.
Validate ==
    /\ verdict = "pending"
    /\ verdict' = validateStrategy(strategy)
    /\ UNCHANGED <<localStorage, StrategyConverter, calls, order, last, strategy>>

(**************************** specifications *******************************)
\* Overlapping imports, interleaved with exports and reads of the store.
Next ==
    \/ \E c \in Calls, file \in RaceFiles \cup {NoFile}, format \in Formats :
          ImportStart(c, file, format)
    \/ \E c \in Calls : FileLoad(c)
    \/ \E c \in Calls : FileError(c)
    \/ \E format \in Formats : ExportStrategies(format)
    \/ \E format \in Formats : GetStrategies(format)

Spec == Init /\ [][Next]_vars

\* The imports alone, where a file read that was started ends: the FileReader
\* fires load or error for every read. (exportStrategies and getStrategies are
\* synchronous and touch neither a reader nor a promise.)
NextImport ==
    \/ \E c \in Calls, file \in RaceFiles \cup {NoFile}, format \in Formats :
          ImportStart(c, file, format)
    \/ \E c \in Calls : FileLoad(c)
    \/ \E c \in Calls : FileError(c)

LiveSpec ==
    Init /\ [][NextImport]_vars /\ \A c \in Calls : WF_vars(FileError(c) \/ FileLoad(c))

\* One import at a time, over every kind of file and stored item.
InitSeq ==
    /\ localStorage \in SeqItems
    /\ StrategyConverter \in {"defined", "undefined"}
    /\ calls = [c \in Calls |-> IdleCall]
    /\ order = <<>>
    /\ last = NoCall
    /\ strategy = Undefined
    /\ verdict = "none"

NextSeq ==
    \/ \E file \in SeqFiles \cup {NoFile}, format \in Formats :
          ImportStart(1, file, format)
    \/ FileLoad(1)
    \/ FileError(1)
    \/ Forget(1)
    \/ \E format \in Formats : ExportStrategies(format)
    \/ \E format \in Formats : GetStrategies(format)

SeqSpec == InitSeq /\ [][NextSeq]_vars

\* validateStrategy on every sample.
InitValidator ==
    /\ localStorage = NoItem
    /\ StrategyConverter = "undefined"
    /\ calls = [c \in Calls |-> IdleCall]
    /\ order = <<>>
    /\ last = NoCall
    /\ strategy \in {ParseNode(t) : t \in StrategySamples}
    /\ verdict = "pending"

ValidatorSpec == InitValidator /\ [][Validate]_vars

(******************************** claims ***********************************)
\* Every element of the value is a strategy validateStrategy answers true for.
Passes(v) ==
    IsArr(v) /\ \A i \in 1..Len(v.arr) : validateStrategy(v.arr[i]) = "true"
\* The text parses to such a value.
PassesText(text) ==
    /\ text # NoItem
    /\ text.txt = "json"
    /\ Passes(ParseNode(text.doc))
\* Call c's file read completes in this step.
Loads(c) == calls[c].reader = "loading" /\ calls'[c].reader = "done"

\* C1: the stored value changes only in a step in which a pending
\* importStrategies call is fulfilled; exportStrategies, getStrategies and
\* every rejecting import leave it as it was.
C1_StoreChangesOnlyOnImportSuccess ==
    [][localStorage' # localStorage =>
         \E c \in Calls : Loads(c) /\ calls'[c].promise = "fulfilled"]_vars

\* An export has thrown, one import was rejected after its read and another
\* was fulfilled.
C1_Witness ==
    /\ last.op = "exportStrategies"
    /\ last.result.outcome = "throw"
    /\ \E c \in Calls : calls[c].reader = "done" /\ calls[c].promise = "rejected"
    /\ \E c \in Calls : calls[c].promise = "fulfilled"

\* C2: an export downloads only if the stored text parses to a list whose
\* elements all pass validateStrategy, and an import writes only if the parsed
\* (for "shorthand", decoded) content is such a list; otherwise nothing is
\* downloaded, nothing is written and the store keeps its value.
ImportContentPasses(file, format, converter) ==
    /\ file.txt = "json"
    /\ IF format = "shorthand"
       THEN /\ converter = "defined"
            /\ "ok" \in DOMAIN fromShorthand(ParseNode(file.doc))
            /\ Passes(fromShorthand(ParseNode(file.doc)).ok)
       ELSE Passes(ParseNode(file.doc))

C2_ValidatorGatesEveryCrossing ==
    [][/\ (last'.op = "exportStrategies" /\ ~PassesText(localStorage))
             => last'.result.download = NoDownload
       /\ \A c \in Calls :
            (Loads(c) /\ ~ImportContentPasses(calls[c].file, calls[c].format,
                                              StrategyConverter))
               => localStorage' = localStorage /\ ~calls'[c].wrote
       /\ \A c \in Calls : (~Loads(c) /\ calls'[c].wrote) => calls[c].wrote]_vars

\* The import of the list with one valid and one invalid strategy was
\* rejected without a write, and an export of the store has downloaded.
C2_Witness ==
    /\ calls[1].promise = "rejected"
    /\ calls[1].value = InvalidStrategyFile(InvalidFormat.message)
    /\ ~calls[1].wrote
    /\ last.op = "exportStrategies"
    /\ last.result.download # NoDownload

\* C3: once no read is under way, the store holds the complete serialization
\* of the array of the fulfilled import whose read ended last; a rejected
\* import ending later does not change it.
Fulfilled == {i \in 1..Len(order) : calls[order[i]].promise = "fulfilled"}
LastFulfilled == order[CHOOSE i \in Fulfilled : \A j \in Fulfilled : j <= i]

C3_LastWriteWins ==
    (Fulfilled # {} /\ \A c \in Calls : calls[c].reader # "loading")
        => localStorage = JSONstringify(calls[LastFulfilled].value)

\* Two imports overlapped (the second started ended first), both were
\* fulfilled, with different arrays.
C3_Witness ==
    /\ order = <<2, 1>>
    /\ calls[1].promise = "fulfilled"
    /\ calls[2].promise = "fulfilled"
    /\ calls[1].value # calls[2].value

\* C4: when an import is fulfilled with array A, the store holds the
\* serialization of A and getStrategies("original") then returns A.
C4_ImportPersistsWhatItResolves ==
    [][\A c \in Calls :
         (Loads(c) /\ calls'[c].promise = "fulfilled") =>
            /\ localStorage' = JSONstringify(calls'[c].value)
            /\ getStrategies(localStorage', "original", StrategyConverter)
                 = Return(calls'[c].value, NoDownload)]_vars

\* C5: with no item or an empty item stored, exportStrategies and
\* getStrategies return null, whatever the format, and nothing is downloaded;
\* with an item stored that is no valid list, both throw.
C5_AbsentIsNullMalformedIsError ==
    last.op \in {"exportStrategies", "getStrategies"} =>
       /\ localStorage \in {NoItem, EmptyText}
             => last.result = Return(Null, NoDownload)
       /\ (localStorage \notin {NoItem, EmptyText} /\ ~PassesText(localStorage))
             => last.result.outcome = "throw"

\* exportStrategies("shorthand") on an empty item, the converter not defined.
C5_Witness ==
    /\ last.op = "exportStrategies"
    /\ last.format = "shorthand"
    /\ StrategyConverter = "undefined"
    /\ localStorage = EmptyText
    /\ last.result.value = Null

\* C6 as claimed, for the stored texts validateStrategy never throws on:
\* getStrategies on a stored text that does not parse, or that parses to a
\* value failing validation, throws the error hinting at the wrong website.
C6_ParseOrValidationFailureHintsAtSite ==
    (/\ last.op = "getStrategies"
     /\ ~ItemFalsy(localStorage)
     /\ IF localStorage.txt = "json"
        THEN validateAll(ParseNode(localStorage.doc)) = "false"
        ELSE TRUE)
       => last.result = Throw(WrongWebsite)

\* C6 as amended: the hinting error is thrown exactly when the text parses
\* and validation answers false; a text that does not parse makes JSON.parse's
\* SyntaxError reach the caller as it is, and a validator that throws makes its
\* TypeError reach the caller.
C6_HintOnlyOnValidationFailure ==
    (last.op = "getStrategies" /\ ~ItemFalsy(localStorage)) =>
       IF localStorage.txt # "json" THEN last.result = Throw(SyntaxError)
       ELSE CASE validateAll(ParseNode(localStorage.doc)) = "false" ->
                   last.result = Throw(WrongWebsite)
              [] validateAll(ParseNode(localStorage.doc)) = "TypeError" ->
                   last.result = Throw(TypeError)
              [] OTHER -> last.result.value # WrongWebsite

\* getStrategies on a stored text that does not parse threw the SyntaxError.
C6_Witness ==
    /\ last.op = "getStrategies"
    /\ localStorage = Malformed
    /\ last.result = Throw(SyntaxError)

\* C7: a call without a file is rejected with NoFileSelected and starts no
\* read; a failed read rejects with FileReadError; a completed read whose text
\* does not parse, does not decode or does not validate rejects with
\* InvalidStrategyFile carrying the message of the error underneath; every
\* other completed read fulfils the promise.
C7_RejectsWithErrorOfFailedStep ==
    [][\A c \in Calls :
         /\ (~calls[c].started /\ calls'[c].promise = "rejected")
               => calls'[c].value = NoFileSelected /\ calls'[c].reader = "none"
         /\ (calls[c].reader = "loading" /\ calls'[c].reader = "error")
               => calls'[c].promise = "rejected" /\ calls'[c].value = FileReadError
         /\ Loads(c) =>
              IF calls[c].file.txt # "json"
              THEN /\ calls'[c].promise = "rejected"
                   /\ calls'[c].value = InvalidStrategyFile(SyntaxError.message)
              ELSE IF ImportContentPasses(calls[c].file, calls[c].format,
                                          StrategyConverter)
              THEN calls'[c].promise = "fulfilled"
              ELSE /\ calls'[c].promise = "rejected"
                   /\ calls'[c].value \in
                        {InvalidStrategyFile(e.message) :
                           e \in {InvalidFormat, TypeError, ReferenceError,
                                  Err("Error", "Invalid shorthand")}}]_vars

\* An import was rejected because its text did not parse.
C7_Witness ==
    /\ calls[1].reader = "done"
    /\ calls[1].promise = "rejected"
    /\ calls[1].value = InvalidStrategyFile(SyntaxError.message)

\* C8: validateStrategy answers true or false, and true exactly when label is
\* truthy, isDefault is a boolean, blocks is a sequence and every block passes
\* validateBlock.
C8_ValidateStrategyAnswersPassOrFail ==
    verdict \notin {"none", "pending"} =>
       /\ verdict \in {"true", "false"}
       /\ verdict = "true" <=>
            /\ Truthy(Get(strategy, "label"))
            /\ IsBool(Get(strategy, "isDefault"))
            /\ IsArr(Get(strategy, "blocks"))
            /\ \A i \in 1..Len(Get(strategy, "blocks").arr) :
                  validateBlock(Get(strategy, "blocks").arr[i]) = "true"

\* C9: at format "original", the import of the file whose only deviation is
\* an action value (or a condition value) of 0 is fulfilled with the parsed
\* list and persisted; the one whose only deviation is a block id of 0 is
\* rejected and leaves the store as it was.
C9_ZeroValueAcceptedZeroIdRejected ==
    [][\A c \in Calls :
         (Loads(c) /\ calls[c].format = "original") =>
            /\ calls[c].file \in {FileActionZero, FileConditionZero} =>
                 /\ calls'[c].promise = "fulfilled"
                 /\ calls'[c].value = ParseNode(calls[c].file.doc)
                 /\ localStorage' = JSONstringify(ParseNode(calls[c].file.doc))
            /\ calls[c].file = FileIdZero =>
                 /\ calls'[c].promise = "rejected"
                 /\ localStorage' = localStorage]_vars

\* The import of the file with the action value 0 was fulfilled and is stored.
C9_Witness ==
    /\ calls[1].promise = "fulfilled"
    /\ calls[1].value = ParseNode(FileActionZero.doc)
    /\ localStorage = FileActionZero

\* C10: a call whose read was started is settled in the end, exactly once and
\* in the step that ends the read; while the read is under way the promise is
\* pending and the call has written nothing.
C10_SettlesOnceAfterRead ==
    /\ \A c \in Calls :
          (calls[c].reader = "loading") ~> (calls[c].promise # "pending")
    /\ [](\A c \in Calls :
            /\ calls[c].settles <= 1
            /\ calls[c].reader = "loading" =>
                  calls[c].promise = "pending" /\ calls[c].settles = 0 /\ ~calls[c].wrote
            /\ calls[c].reader \in {"done", "error"} =>
                  calls[c].promise # "pending" /\ calls[c].settles = 1
            /\ calls[c].wrote => calls[c].reader = "done" /\ calls[c].promise = "fulfilled")

\* One call was rejected by a failed read and another fulfilled by a
\* completed one.
C10_Witness ==
    /\ \E c \in Calls : calls[c].reader = "error" /\ calls[c].promise = "rejected"
    /\ \E c \in Calls : calls[c].reader = "done" /\ calls[c].promise = "fulfilled"

====
